---- MODULE Spec2Model ----
(***************************************************************************)
(* The nREPL connection orchestrator of src/src/lsp.ts (second half of the *)
(* file: connectToHost, makeCljsSessionClone, evalConnectCode, connect,    *)
(* disconnect, toggleCLJCSession, recreateCljsRepl).                       *)
(*                                                                         *)
(* JavaScript runs one callback at a time; an async function runs without  *)
(* interruption from one await to the next.  Every action below is one     *)
(* such run: it starts where a promise resolved (or a command was called)  *)
(* and ends at the next await that really suspends.                        *)
(***************************************************************************)
EXTENDS Integers, Sequences, FiniteSets, TLC

(* ------------------------------ bounds -------------------------------- *)
\* connections the nREPL server side will accept over one run
MaxConns == 2
\* stdout / stderr chunks one evaluation delivers
MaxChunks == 1
\* the chunks one evaluation prints when its chunks are followed one by one
MaxEvalChunks == 2

Conns == 1..MaxConns
\* the slots in which an asynchronous command (connect, recreateCljsRepl) runs
Procs == {1, 2}

(* ------------------------------ sessions ------------------------------ *)
\* null / undefined
Null == <<0, 0>>
\* nClient.session: the session a Connection is created with
BaseSession(c) == <<c, 0>>
\* the k-th session made by clone() on the Connection of s
CloneSession(s, k) == <<s[1], k>>
ConnOf(s) == s[1]

VARIABLES
    conn,       \* Connection -> "none" | "open" | "closed"   (NReplClient objects)
    silent,     \* Connection -> BOOLEAN                      (nClient["silent"])
    pending,    \* Connections closed whose close handlers have not run yet
    nClient,    \* lsp.ts:782, 0 when undefined
    cljSession, \* lsp.ts:783
    cljsSession,\* lsp.ts:784
    clj, cljs, cljc,        \* state.cursor 'clj', 'cljs', 'cljc'
    connected, connecting,  \* state.cursor 'connected', 'connecting'
    cljsBuild,              \* state.cursor 'cljsBuild'
    selectedCljsTypeName,   \* workspaceState 'selectedCljsTypeName'
    customName,             \* state.config().customCljsRepl.name, "" when not configured
    projectDir,             \* state.cursor PROJECT_DIR_KEY, "none" before it is set
    procs,      \* Procs -> the position and locals of the command running there
    evals,      \* Procs -> the invocation of evalConnectCode running there
    sent,       \* Procs -> the chunks the server sent for that invocation's Session
    registry,   \* the array cljsReplTypes, and per command the types it built and found
    last        \* what the latest run did (a label, for stating the claims)

vars == <<conn, silent, pending, nClient, cljSession, cljsSession, clj, cljs, cljc,
          connected, connecting, cljsBuild, selectedCljsTypeName, customName,
          projectDir, procs, evals, sent, registry, last>>

(* --------------------------- REPL type registry ----------------------- *)
CLJS_PROJECT_TYPE_NONE == "Don't load any cljs support, thanks"

\* the built-in strategies, in the order of the array literal
cljsReplTypes == << [name |-> "Figwheel Main", kind |-> "FigwheelMain", hasStart |-> TRUE],
                    [name |-> "Figwheel",      kind |-> "Figwheel",     hasStart |-> FALSE],
                    [name |-> "shadow-cljs",   kind |-> "shadow",       hasStart |-> FALSE] >>

createCustomCLJSReplType(name) == [name |-> name, kind |-> "custom", hasStart |-> FALSE]

\* types = cljsReplTypes.slice(); push the custom type when one is configured
getCLJSReplTypes ==
    IF customName # ""
    THEN Append(cljsReplTypes, createCustomCLJSReplType(customName))
    ELSE cljsReplTypes

NoRepl == [name |-> "", kind |-> "undefined", hasStart |-> FALSE]

\* the module's array as the literal made it; no command has built its list
NoRegistry == [builtin |-> cljsReplTypes,
               types |-> [p \in Procs |-> <<>>],
               looked |-> [p \in Procs |-> ""],
               repl |-> [p \in Procs |-> NoRepl]]

\* replTypes.find(x => x.name == replType): the first match, undefined when none
FindRepl(types, replType) ==
    LET hits == {i \in 1..Len(types) : types[i].name = replType}
    IN IF hits = {} THEN NoRepl
       ELSE types[CHOOSE i \in hits : \A j \in hits : i <= j]

(* ------------------------- the shapes of the state -------------------- *)
\* the label of a run: the command, the step of it, how the step ended, and
\* whether the run wrote "nREPL Connection was closed" to the output channel
Did(op, step, res) == [op |-> op, step |-> step, res |-> res, notice |-> FALSE]

\* one invocation of evalConnectCode: its arguments, the closures out and
\* err, what its processors were handed and did, and how it ended
NoEval == [state |-> "none", kind |-> "none", browser |-> FALSE,
           out |-> <<>>, err |-> <<>>, handed |-> <<>>, opened |-> <<>>, told |-> 0,
           value |-> "undefined", pred |-> "undefined", ret |-> "undefined"]

IdleProc == [pc |-> "idle", kind |-> "none", auto |-> FALSE, typ |-> "",
             port |-> "", sess |-> Null, new |-> Null]

Init ==
    /\ conn = [c \in Conns |-> "none"]
    /\ silent = [c \in Conns |-> FALSE]
    /\ pending = {}
    /\ nClient = 0
    /\ cljSession = Null
    /\ cljsSession = Null
    /\ clj = Null /\ cljs = Null /\ cljc = Null
    /\ connected = FALSE /\ connecting = FALSE
    /\ cljsBuild = "null"
    /\ selectedCljsTypeName = "undefined"
    /\ customName = "custom"
    /\ projectDir = "none"
    /\ procs = [p \in Procs |-> IdleProc]
    /\ evals = [p \in Procs |-> NoEval]
    /\ sent = [p \in Procs |-> <<>>]
    /\ registry = NoRegistry
    /\ last = Did("init", "Init", "")


(* ------------------------- inputs from outside ------------------------ *)
\* what the port file holds: no file, or its text ("" is an empty file)
PortTexts == {"", "57321", "0", "65536", "80.5", "abc"}
PortFiles == {"nofile"} \cup PortTexts

\* parseFloat(text), in tenths; -1 stands for NaN
parseFloat(t) ==
    CASE t = "57321" -> 573210
      [] t = "0"     -> 0
      [] t = "65536" -> 655360
      [] t = "80.5"  -> 805
      [] OTHER       -> -1

\* parsedPort && parsedPort > 0 && parsedPort < 65536   (lsp.ts:766)
PortAccepted(t) ==
    LET parsedPort == parseFloat(t)
    IN parsedPort # -1 /\ parsedPort # 0 /\ parsedPort > 0 /\ parsedPort < 655360

\* a socket can only be opened on an integer port in 1..65535
PortOpens(t) ==
    LET n == parseFloat(t) IN n > 0 /\ n < 655360 /\ n % 10 = 0

\* the chunks an evaluation may print
OutChunks == {"Prompt will show", "To quit, type: :cljs/quit", "READY", "other"}
ErrChunks == {"already running", "other"}
SeqsUpTo(S, n) == UNION {[1..k -> S] : k \in 0..n}
\* what one evaluation of connect code delivers: the final value (undefined
\* when the evaluation failed and the failure was caught) and the chunks
EvalResults == [value : {"undefined", ":selected", "nil"},
                out : SeqsUpTo(OutChunks, MaxChunks),
                err : SeqsUpTo(ErrChunks, MaxChunks)]

\* nothing was evaluated
NoResult == [value |-> "undefined", out |-> <<>>, err |-> <<>>]

\* x.search(marker) >= 0
Search(x, marker) == x = marker
\* xs.find(x => x.search(marker) >= 0) != undefined
Finds(xs, marker) == \E i \in 1..Len(xs) : Search(xs[i], marker)

(* ------------------ the predicates of the strategies ------------------ *)
\* xs.find(x => x.search(marker) >= 0): the first match, "undefined" when none
Find(xs, marker) ==
    IF Finds(xs, marker)
    THEN xs[CHOOSE i \in 1..Len(xs) : /\ Search(xs[i], marker)
                                      /\ \A j \in 1..(i - 1) : ~Search(xs[j], marker)]
    ELSE "undefined"

\* a value in the condition of an if: undefined, false and "" are falsy
Truthy(v) == v \notin {"undefined", "false", ""}

\* the started predicate as it would be if it looked at stdout only
started_OutOnly(r) ==
    IF Finds(r.out, "Prompt will show") THEN "true"
    ELSE "undefined"

\* lsp.ts:566-571: out.find(..) != undefined || err != undefined && err.find(..),
\* the value the expression has: true, or what err.find returned
started(r) ==
    IF Finds(r.out, "Prompt will show") THEN "true"
    ELSE Find(r.err, "already running")

\* cljsReplTypes[Figwheel Main].started: truthy or falsy
FigwheelMainStarted(r) == Truthy(started(r))

\* repl.connected(value, out, err): "true", "false", or "throw" (a TypeError)
Connected(kind, r) ==
    CASE kind = "FigwheelMain" ->
            IF Finds(r.out, "To quit, type: :cljs/quit") THEN "true" ELSE "false"
      [] kind = "Figwheel" ->
            IF Finds(r.out, "Prompt will show") THEN "true" ELSE "false"
      [] kind = "shadow" ->
            IF r.value = "undefined" THEN "throw"
            ELSE IF r.value = ":selected" THEN "true" ELSE "false"
      [] OTHER ->
            IF Finds(r.out, "READY") THEN "true" ELSE "false"

\* the connect routines that ask the user for a build (and throw "Aborted"
\* when the prompt is dismissed or there is nothing to pick from)
PromptsForBuild(kind) == kind \in {"FigwheelMain", "shadow"}

(* ----------------------------- Connection ----------------------------- *)
\* the callback of addOnCloseHandler, on the two flags it writes
CloseHandler(flags) == [connected |-> FALSE, connecting |-> FALSE]

\* lsp.ts:410-412: the callback writes the notice unless the Connection it
\* was registered on carries the silent mark when it runs
HandlerNotice(c, marks) == ~marks[c]

\* close() acts on a live Connection only (it is idempotent)
Closes(c) == c # 0 /\ conn[c] = "open"


(* -------------------------- connectToHost ----------------------------- *)
\* connectToHost as it would be without lines 396-399: the held client is
\* neither marked silent nor closed
ConnectToHostBegin_KeepsClient(p, port, cljsTypeName, sync) ==
    /\ cljsSession' = Null
    /\ cljSession' = Null
    /\ connecting' = TRUE
    /\ procs' = [procs EXCEPT ![p] = [@ EXCEPT !.pc = "create", !.kind = "connect",
                                             !.typ = cljsTypeName, !.port = port]]
    /\ UNCHANGED <<conn, silent, pending, connected, nClient, clj, cljs, cljc,
                   cljsBuild, customName>>

\* lsp.ts:393-406: tear the held client down (silently), forget the module's
\* sessions, mark connecting, and wait for NReplClient.create.  sync tells
\* whether close() runs the close handlers before it returns or leaves them
\* to a later turn of the event loop.
ConnectToHostBegin(p, port, cljsTypeName, sync) ==
    LET flags == IF Closes(nClient) /\ sync
                 THEN CloseHandler([connected |-> connected, connecting |-> connecting])
                 ELSE [connected |-> connected, connecting |-> connecting]
    IN
    /\ silent' = IF nClient # 0 THEN [silent EXCEPT ![nClient] = TRUE] ELSE silent
    /\ conn' = IF Closes(nClient) THEN [conn EXCEPT ![nClient] = "closed"] ELSE conn
    /\ pending' = IF Closes(nClient) /\ ~sync THEN pending \cup {nClient} ELSE pending
    /\ cljsSession' = Null
    /\ cljSession' = Null
    /\ connected' = flags.connected
    /\ connecting' = TRUE
    /\ procs' = [procs EXCEPT ![p] = [@ EXCEPT !.pc = "create", !.kind = "connect",
                                             !.typ = cljsTypeName, !.port = port]]
    /\ UNCHANGED <<nClient, clj, cljs, cljc, cljsBuild, customName>>

\* connectToHost as it would be if the catch of lines 443-449 left the
\* connecting flag alone when NReplClient.create rejects
Create_KeepsConnecting(p, ok) ==
    /\ procs[p].pc = "create"
    /\ IF ok
       THEN /\ PortOpens(procs[p].port)
            /\ \E c \in Conns :
                /\ conn[c] = "none"
                /\ \A d \in Conns : d < c => conn[d] # "none"
                /\ conn' = [conn EXCEPT ![c] = "open"]
                /\ nClient' = c
                /\ cljSession' = BaseSession(c)
            /\ procs' = [procs EXCEPT ![p].pc = "window"]
            /\ last' = Did("connect", "Create", "ok")
            /\ UNCHANGED <<connected, connecting>>
       ELSE /\ connected' = FALSE
            /\ procs' = [procs EXCEPT ![p] = IdleProc]
            /\ last' = Did("connect", "Create", "failed")
            /\ UNCHANGED <<conn, nClient, cljSession, connecting>>
    /\ UNCHANGED <<silent, pending, cljsSession, clj, cljs, cljc, cljsBuild,
                   selectedCljsTypeName, customName>>
    /\ UNCHANGED <<projectDir, evals, sent, registry>>

\* lsp.ts:406-416 and 443-449: NReplClient.create resolves or rejects
Create(p, ok) ==
    /\ procs[p].pc = "create"
    /\ IF ok
       THEN /\ PortOpens(procs[p].port)
            /\ \E c \in Conns :
                /\ conn[c] = "none"
                /\ \A d \in Conns : d < c => conn[d] # "none"
                /\ conn' = [conn EXCEPT ![c] = "open"]
                /\ nClient' = c
                /\ cljSession' = BaseSession(c)
            /\ procs' = [procs EXCEPT ![p].pc = "window"]
            /\ last' = Did("connect", "Create", "ok")
            /\ UNCHANGED <<connected, connecting>>
       ELSE /\ connected' = FALSE
            /\ connecting' = FALSE
            /\ procs' = [procs EXCEPT ![p] = IdleProc]
            /\ last' = Did("connect", "Create", "failed")
            /\ UNCHANGED <<conn, nClient, cljSession>>
    /\ UNCHANGED <<silent, pending, cljsSession, clj, cljs, cljc, cljsBuild,
                   selectedCljsTypeName, customName>>
    /\ UNCHANGED <<projectDir, evals, sent, registry>>

\* lsp.ts:710-715: makeCljsSessionClone up to its first await; clone() of a
\* null session is a TypeError
CloneBegin(p, kind, step, session, replType) ==
    IF session = Null
    THEN /\ procs' = [procs EXCEPT ![p] = IdleProc]
         /\ last' = Did(kind, step, IF kind = "connect" THEN "caught" ELSE "uncaught")
    ELSE /\ procs' = [procs EXCEPT ![p] = [@ EXCEPT !.pc = "clone1", !.kind = kind,
                                 !.typ = replType, !.sess = session, !.new = Null]]
         /\ last' = Did(kind, step, "cloning")

\* connectToHost as it would be without line 425: cljc is not bound
CljReady_ForgetsCljc(p) ==
    /\ procs[p].pc = "window"
    /\ connected' = TRUE
    /\ connecting' = FALSE
    /\ clj' = cljSession
    /\ IF procs[p].typ # ""
       THEN CloneBegin(p, "connect", "CljReady", cljSession, procs[p].typ)
       ELSE /\ procs' = [procs EXCEPT ![p] = IdleProc]
            /\ last' = Did("connect", "CljReady", "noCljs")
    /\ UNCHANGED <<conn, silent, pending, nClient, cljSession, cljsSession, cljs,
                   cljc, cljsBuild, selectedCljsTypeName, customName>>
    /\ UNCHANGED <<projectDir, evals, sent, registry>>

\* lsp.ts:416-433 (and 437-451 when no ClojureScript type was selected): the
\* REPL window is open; mark connected, bind clj and cljc, start the bootstrap
CljReady(p) ==
    /\ procs[p].pc = "window"
    /\ connected' = TRUE
    /\ connecting' = FALSE
    /\ clj' = cljSession
    /\ cljc' = cljSession
    /\ IF procs[p].typ # ""
       THEN CloneBegin(p, "connect", "CljReady", cljSession, procs[p].typ)
       ELSE /\ procs' = [procs EXCEPT ![p] = IdleProc]
            /\ last' = Did("connect", "CljReady", "noCljs")
    /\ UNCHANGED <<conn, silent, pending, nClient, cljSession, cljsSession, cljs,
                   cljsBuild, selectedCljsTypeName, customName>>
    /\ UNCHANGED <<projectDir, evals, sent, registry>>


(* ------------------------- evalConnectCode ---------------------------- *)
\* lsp.ts:527-533: when the predicate accepts, the session evaluated on
\* becomes the cljs session (module variable and role)
EvalConnectCode(newCljsSession, success) ==
    IF success
    THEN cljs' = newCljsSession /\ cljsSession' = newCljsSession
    ELSE UNCHANGED <<cljs, cljsSession>>

(* ----------------------- makeCljsSessionClone ------------------------- *)
\* an exception leaves makeCljsSessionClone: connectToHost catches it
\* (lsp.ts:434-436) and goes on without a cljs session; recreateCljsRepl
\* (lsp.ts:885) has no handler and rejects
Thrown(p, step) ==
    /\ procs' = [procs EXCEPT ![p] = IdleProc]
    /\ last' = Did(procs[p].kind, step, IF procs[p].kind = "connect" THEN "caught" ELSE "uncaught")

\* makeCljsSessionClone returns [null, null]: nothing is set up (lsp.ts:437-451,
\* 886-888)
ReturnNone(p, step, res) ==
    /\ procs' = [procs EXCEPT ![p] = IdleProc]
    /\ last' = Did(procs[p].kind, step, res)

\* a clone can be made on a live Connection only
CanClone(session) == conn[ConnOf(session)] = "open"

\* every session some variable still refers to
SessionRefs ==
    {clj, cljs, cljc, cljSession, cljsSession}
        \cup {procs[q].sess : q \in Procs} \cup {procs[q].new : q \in Procs}

\* the session clone() answers with: one the program holds no reference to
\* (the least such number, so that states differ only in what they refer to)
NewClone(session) ==
    LET free == {k \in 1..(Cardinality(SessionRefs) + 1) :
                    CloneSession(session, k) \notin SessionRefs}
    IN CloneSession(session, CHOOSE k \in free : \A j \in free : k <= j)

\* lsp.ts:715-723 / 734-737: the first session.clone() settles; look the
\* strategy up and call its start routine, or its connect routine
Clone1(p, outcome) ==
    /\ procs[p].pc = "clone1"
    /\ CASE outcome = "ok" ->
              /\ CanClone(procs[p].sess)
              /\ LET repl == FindRepl(getCLJSReplTypes, procs[p].typ)
                     new == NewClone(procs[p].sess)
                 IN IF repl = NoRepl
                    THEN Thrown(p, "Clone1")
                    ELSE /\ procs' = [procs EXCEPT ![p] = [@ EXCEPT
                                 !.pc = IF repl.hasStart THEN "start" ELSE "connect",
                                 !.new = new]]
                         /\ last' = Did(procs[p].kind, "Clone1", "ok")
         [] outcome = "none" ->
              ReturnNone(p, "Clone1", "noSession")
         [] OTHER ->
              Thrown(p, "Clone1")
    /\ UNCHANGED <<conn, silent, pending, nClient, cljSession, cljsSession, clj, cljs,
                   cljc, connected, connecting, cljsBuild, selectedCljsTypeName,
                   customName>>
    /\ UNCHANGED <<projectDir, evals, sent, registry>>

\* makeCljsSessionClone as it would be without lines 730-731: a failed start
\* falls through to the connect routine
Start_FallsThrough(p, aborted, r) ==
    /\ procs[p].pc = "start"
    /\ IF aborted
       THEN /\ Thrown(p, "Start")
            /\ UNCHANGED <<cljs, cljsSession, cljsBuild>>
       ELSE /\ EvalConnectCode(procs[p].new, FigwheelMainStarted(r))
            /\ cljsBuild' = "build"
            /\ IF FigwheelMainStarted(r)
               THEN /\ procs' = [procs EXCEPT ![p].pc = "clone2"]
                    /\ last' = Did(procs[p].kind, "Start", "started")
               ELSE /\ procs' = [procs EXCEPT ![p].pc = "connect"]
                    /\ last' = Did(procs[p].kind, "Start", "startFailed")
    /\ UNCHANGED <<conn, silent, pending, nClient, cljSession, clj, cljc, connected,
                   connecting, selectedCljsTypeName, customName>>
    /\ UNCHANGED <<projectDir, evals, sent, registry>>

\* lsp.ts:723-732 with the start routine of Figwheel Main (547-565): the
\* build prompt is dismissed (aborted), or the start code is evaluated and
\* the started predicate judges the result r
Start(p, aborted, r) ==
    /\ procs[p].pc = "start"
    /\ IF aborted
       THEN /\ Thrown(p, "Start")
            /\ UNCHANGED <<cljs, cljsSession, cljsBuild>>
       ELSE /\ EvalConnectCode(procs[p].new, FigwheelMainStarted(r))
            /\ IF FigwheelMainStarted(r)
               THEN /\ cljsBuild' = "build"
                    /\ procs' = [procs EXCEPT ![p].pc = "clone2"]
                    /\ last' = Did(procs[p].kind, "Start", "started")
               ELSE /\ cljsBuild' = "null"
                    /\ ReturnNone(p, "Start", "startFailed")
    /\ UNCHANGED <<conn, silent, pending, nClient, cljSession, clj, cljc, connected,
                   connecting, selectedCljsTypeName, customName>>
    /\ UNCHANGED <<projectDir, evals, sent, registry>>

\* lsp.ts:726: the second session.clone(), after a successful start
Clone2(p, ok) ==
    /\ procs[p].pc = "clone2"
    /\ IF ok
       THEN /\ CanClone(procs[p].sess)
            /\ procs' = [procs EXCEPT ![p] = [@ EXCEPT !.pc = "connect",
                                      !.new = NewClone(procs[p].sess)]]
            /\ last' = Did(procs[p].kind, "Clone2", "ok")
       ELSE Thrown(p, "Clone2")
    /\ UNCHANGED <<conn, silent, pending, nClient, cljSession, cljsSession, clj, cljs,
                   cljc, connected, connecting, cljsBuild, selectedCljsTypeName,
                   customName>>
    /\ UNCHANGED <<projectDir, evals, sent, registry>>

\* lsp.ts:454-455: setUpCljsRepl up to its first await
SetUpCljsReplBegin(p, session) ==
    /\ cljs' = session
    /\ procs' = [procs EXCEPT ![p].pc = "setup"]

\* lsp.ts:737-747 with the connect routine of the strategy: the build prompt
\* is dismissed (aborted), or the connect code is evaluated and the connected
\* predicate judges the result r; on success the caller sets the REPL up
ConnectStep(p, aborted, r) ==
    LET repl == FindRepl(getCLJSReplTypes, procs[p].typ)
        verdict == Connected(repl.kind, r)
    IN
    /\ procs[p].pc = "connect"
    /\ aborted => PromptsForBuild(repl.kind)
    /\ IF aborted
       THEN /\ Thrown(p, "ConnectStep")
            /\ UNCHANGED <<cljs, cljsSession, cljsBuild>>
       ELSE CASE verdict = "throw" ->
                   /\ cljsBuild' = IF PromptsForBuild(repl.kind) THEN "build" ELSE "null"
                   /\ Thrown(p, "ConnectStep")
                   /\ UNCHANGED <<cljs, cljsSession>>
              [] verdict = "true" ->
                   /\ cljsBuild' = IF PromptsForBuild(repl.kind) THEN "build" ELSE "null"
                   /\ EvalConnectCode(procs[p].new, TRUE)
                   /\ SetUpCljsReplBegin(p, procs[p].new)
                   /\ last' = Did(procs[p].kind, "ConnectStep", "connected")
              [] OTHER ->
                   /\ EvalConnectCode(procs[p].new, FALSE)
                   /\ cljsBuild' = "null"
                   /\ ReturnNone(p, "ConnectStep", "connectFailed")
    /\ UNCHANGED <<conn, silent, pending, nClient, cljSession, clj, cljc, connected,
                   connecting, selectedCljsTypeName, customName>>
    /\ UNCHANGED <<projectDir, evals, sent, registry>>

\* lsp.ts:457-460: the cljs REPL window opens and reconnects, or
\* reconnectReplWindow rejects; connectToHost then lands in its outer catch
\* (443-449), recreateCljsRepl rejects
Setup(p, ok) ==
    /\ procs[p].pc = "setup"
    /\ procs' = [procs EXCEPT ![p] = IdleProc]
    /\ IF ok
       THEN /\ last' = Did(procs[p].kind, "Setup", "ready")
            /\ UNCHANGED <<connected, connecting>>
       ELSE IF procs[p].kind = "connect"
            THEN /\ connected' = FALSE
                 /\ connecting' = FALSE
                 /\ last' = Did("connect", "Setup", "failed")
            ELSE /\ last' = Did("recreate", "Setup", "uncaught")
                 /\ UNCHANGED <<connected, connecting>>
    /\ UNCHANGED <<conn, silent, pending, nClient, cljSession, cljsSession, clj, cljs,
                   cljc, cljsBuild, selectedCljsTypeName, customName>>
    /\ UNCHANGED <<projectDir, evals, sent, registry>>


(* ------------------------------ connect ------------------------------- *)
\* lsp.ts:823-849: store the selected type; with a non-empty port file and
\* autoconnect go straight to connectToHost, else ask for the address
PortStage(p, op, step, cljsTypeName, isAutoConnect, portFile, sync) ==
    /\ selectedCljsTypeName' = cljsTypeName
    /\ IF portFile \notin {"nofile", ""} /\ isAutoConnect
       THEN /\ ConnectToHostBegin(p, portFile, cljsTypeName, sync)
            /\ last' = [Did(op, step, "connecting") EXCEPT !.notice =
                            Closes(nClient) /\ sync /\ HandlerNotice(nClient, silent')]
       ELSE /\ procs' = [procs EXCEPT ![p] = [@ EXCEPT !.pc = "prompt", !.kind = "connect",
                                                      !.typ = cljsTypeName]]
            /\ last' = Did(op, step, "prompting")
            /\ UNCHANGED <<conn, silent, pending, nClient, cljSession, cljsSession,
                           clj, cljs, cljc, connected, connecting, cljsBuild,
                           customName>>

\* the project root that an open document resolves to
WorkspaceRoot == "root"

\* lsp.ts:351-380: initProjectDir throws with no document open, before it
\* wrote anything; otherwise it stores the root it found for the document
initProjectDir(docOpen) == IF docOpen THEN WorkspaceRoot ELSE projectDir

\* connect as it would be if initProjectDir ran for a jack-in too
Connect_AlwaysResolves(p, isAutoConnect, isJackIn, docOpen, portFile, sync) ==
    /\ procs[p].pc = "idle"
    /\ UNCHANGED <<evals, sent, registry>>
    /\ IF isJackIn
       THEN /\ PortStage(p, "connect", "Connect", selectedCljsTypeName, isAutoConnect,
                         portFile, sync)
            /\ projectDir' = initProjectDir(docOpen)
       ELSE /\ projectDir' = initProjectDir(docOpen)
            /\ IF docOpen
               THEN /\ procs' = [procs EXCEPT ![p] = [@ EXCEPT !.pc = "pick",
                                      !.kind = "connect", !.auto = isAutoConnect]]
                    /\ last' = Did("connect", "Connect", "picking")
               ELSE /\ last' = Did("connect", "Connect", "noDocument")
                    /\ UNCHANGED procs
            /\ UNCHANGED <<conn, silent, pending, nClient, cljSession, cljsSession,
                           clj, cljs, cljc, connected, connecting, cljsBuild,
                           selectedCljsTypeName, customName>>

\* connect as it would be if the held client were closed before the picker
\* is shown rather than in connectToHost
Connect_ClosesFirst(p, isAutoConnect, isJackIn, docOpen, portFile, sync) ==
    /\ procs[p].pc = "idle"
    /\ UNCHANGED <<evals, sent, registry>>
    /\ IF isJackIn
       THEN /\ PortStage(p, "connect", "Connect", selectedCljsTypeName, isAutoConnect,
                         portFile, sync)
            /\ UNCHANGED <<projectDir, evals, sent, registry>>
       ELSE /\ projectDir' = initProjectDir(docOpen)
            /\ conn' = IF Closes(nClient) THEN [conn EXCEPT ![nClient] = "closed"] ELSE conn
            /\ IF docOpen
               THEN /\ procs' = [procs EXCEPT ![p] = [@ EXCEPT !.pc = "pick",
                                      !.kind = "connect", !.auto = isAutoConnect]]
                    /\ last' = Did("connect", "Connect", "picking")
               ELSE /\ last' = Did("connect", "Connect", "noDocument")
                    /\ UNCHANGED procs
            /\ UNCHANGED <<silent, pending, nClient, cljSession, cljsSession,
                           clj, cljs, cljc, connected, connecting, cljsBuild,
                           selectedCljsTypeName, customName>>

\* lsp.ts:795-821: connect(isAutoConnect, isJackIn).  Jack-in reuses the stored
\* type name; otherwise the project root is resolved (which needs an open
\* document) and the type picker is shown
Connect(p, isAutoConnect, isJackIn, docOpen, portFile, sync) ==
    /\ procs[p].pc = "idle"
    /\ UNCHANGED <<evals, sent, registry>>
    /\ IF isJackIn
       THEN /\ PortStage(p, "connect", "Connect", selectedCljsTypeName, isAutoConnect,
                         portFile, sync)
            /\ UNCHANGED <<projectDir, evals, sent, registry>>
       ELSE /\ projectDir' = initProjectDir(docOpen)
            /\ IF docOpen
               THEN /\ procs' = [procs EXCEPT ![p] = [@ EXCEPT !.pc = "pick",
                                      !.kind = "connect", !.auto = isAutoConnect]]
                    /\ last' = Did("connect", "Connect", "picking")
               ELSE /\ last' = Did("connect", "Connect", "noDocument")
                    /\ UNCHANGED procs
            /\ UNCHANGED <<conn, silent, pending, nClient, cljSession, cljsSession,
                           clj, cljs, cljc, connected, connecting, cljsBuild,
                           selectedCljsTypeName, customName>>

\* the names the picker offers: the sentinel, then the registry's names
TypeNames == {CLJS_PROJECT_TYPE_NONE} \cup
             {getCLJSReplTypes[i].name : i \in 1..Len(getCLJSReplTypes)}

\* lsp.ts:813-831: the picker resolves with a name, or undefined (dismissed)
PickType(p, choice, portFile, sync) ==
    /\ procs[p].pc = "pick"
    /\ choice \in TypeNames \cup {"undefined"}
    /\ IF choice = "undefined"
       THEN /\ procs' = [procs EXCEPT ![p] = IdleProc]
            /\ last' = Did("connect", "PickType", "dismissed")
            /\ UNCHANGED <<conn, silent, pending, nClient, cljSession, cljsSession,
                           clj, cljs, cljc, connected, connecting, cljsBuild,
                           selectedCljsTypeName, customName>>
       ELSE PortStage(p, "connect", "PickType",
                      IF choice = CLJS_PROJECT_TYPE_NONE THEN "" ELSE choice,
                      procs[p].auto, portFile, sync)
    /\ UNCHANGED <<projectDir, evals, sent, registry>>

\* lsp.ts:752-780: promptForNreplUrlAndConnect after the input box resolved
\* with localhost:<port>, or undefined (dismissed)
PromptForNreplUrlAndConnect(p, port, sync) ==
    /\ procs[p].pc = "prompt"
    /\ port \in PortTexts \cup {"undefined"}
    /\ IF port # "undefined" /\ PortAccepted(port)
       THEN /\ ConnectToHostBegin(p, port, procs[p].typ, sync)
            /\ last' = [Did("connect", "Prompt", "connecting") EXCEPT !.notice =
                            Closes(nClient) /\ sync /\ HandlerNotice(nClient, silent')]
       ELSE /\ connecting' = FALSE
            /\ procs' = [procs EXCEPT ![p] = IdleProc]
            /\ last' = Did("connect", "Prompt", IF port = "undefined" THEN "dismissed" ELSE "badUrl")
            /\ UNCHANGED <<conn, silent, pending, nClient, cljSession, cljsSession,
                           clj, cljs, cljc, connected, cljsBuild, customName>>
    /\ UNCHANGED selectedCljsTypeName
    /\ UNCHANGED <<projectDir, evals, sent, registry>>

(* ----------------------------- disconnect ----------------------------- *)
\* lsp.ts:855-865: clear the roles and the connected flag, then close the
\* client; with no client yet, nClient.close() is a TypeError
Disconnect(sync) ==
    LET flags == IF Closes(nClient) /\ sync
                 THEN CloseHandler([connected |-> FALSE, connecting |-> connecting])
                 ELSE [connected |-> FALSE, connecting |-> connecting]
    IN
    /\ clj' = Null
    /\ cljs' = Null
    /\ cljc' = Null
    /\ connected' = flags.connected
    /\ connecting' = flags.connecting
    /\ conn' = IF Closes(nClient) THEN [conn EXCEPT ![nClient] = "closed"] ELSE conn
    /\ pending' = IF Closes(nClient) /\ ~sync THEN pending \cup {nClient} ELSE pending
    /\ last' = [Did("disconnect", "Disconnect", IF nClient = 0 THEN "threw" ELSE "ok")
                   EXCEPT !.notice = Closes(nClient) /\ sync /\ HandlerNotice(nClient, silent)]
    /\ UNCHANGED <<silent, nClient, cljSession, cljsSession, cljsBuild,
                   selectedCljsTypeName, customName, procs>>
    /\ UNCHANGED <<projectDir, evals, sent, registry>>

\* toggleCLJCSession as it would be without the test of line 870
ToggleCLJCSession_Unguarded ==
    /\ cljc' = IF cljc = cljs THEN clj
               ELSE IF cljc = clj THEN cljs
               ELSE cljc
    /\ last' = Did("toggle", "ToggleCLJCSession", IF connected THEN "connected" ELSE "disconnected")
    /\ UNCHANGED <<conn, silent, pending, nClient, cljSession, cljsSession, clj, cljs,
                   connected, connecting, cljsBuild, selectedCljsTypeName, customName,
                   procs>>
    /\ UNCHANGED <<projectDir, evals, sent, registry>>

(* -------------------------- toggleCLJCSession ------------------------- *)
\* lsp.ts:867-878
ToggleCLJCSession ==
    /\ cljc' = IF connected
               THEN IF cljc = cljs THEN clj
                    ELSE IF cljc = clj THEN cljs
                    ELSE cljc
               ELSE cljc
    /\ last' = Did("toggle", "ToggleCLJCSession", IF connected THEN "connected" ELSE "disconnected")
    /\ UNCHANGED <<conn, silent, pending, nClient, cljSession, cljsSession, clj, cljs,
                   connected, connecting, cljsBuild, selectedCljsTypeName, customName,
                   procs>>
    /\ UNCHANGED <<projectDir, evals, sent, registry>>

(* --------------------------- recreateCljsRepl ------------------------- *)
\* recreateCljsRepl as it would be if it resolved the project root first, as
\* connect does
RecreateCljsRepl_ResolvesProject(p) ==
    /\ procs[p].pc = "idle"
    /\ CloneBegin(p, "recreate", "RecreateCljsRepl", clj, selectedCljsTypeName)
    /\ projectDir' = initProjectDir(TRUE)
    /\ UNCHANGED <<conn, silent, pending, nClient, cljSession, cljsSession, clj, cljs,
                   cljc, connected, connecting, cljsBuild, selectedCljsTypeName,
                   customName>>
    /\ UNCHANGED <<evals, sent, registry>>

\* lsp.ts:879-885: clone the session of the clj role for the stored type name
RecreateCljsRepl(p) ==
    /\ procs[p].pc = "idle"
    /\ CloneBegin(p, "recreate", "RecreateCljsRepl", clj, selectedCljsTypeName)
    /\ UNCHANGED <<conn, silent, pending, nClient, cljSession, cljsSession, clj, cljs,
                   cljc, connected, connecting, cljsBuild, selectedCljsTypeName,
                   customName>>
    /\ UNCHANGED <<projectDir, evals, sent, registry>>

(* --------------------------- close notifications ---------------------- *)
\* the socket of a live Connection drops: its close handlers run
UnexpectedClose(c) ==
    /\ conn[c] = "open"
    /\ conn' = [conn EXCEPT ![c] = "closed"]
    /\ connected' = CloseHandler([connected |-> connected, connecting |-> connecting]).connected
    /\ connecting' = CloseHandler([connected |-> connected, connecting |-> connecting]).connecting
    /\ last' = [Did("close", "UnexpectedClose", "dropped")
                   EXCEPT !.notice = HandlerNotice(c, silent)]
    /\ UNCHANGED <<silent, pending, nClient, cljSession, cljsSession, clj, cljs, cljc,
                   cljsBuild, selectedCljsTypeName, customName, procs>>
    /\ UNCHANGED <<projectDir, evals, sent, registry>>

\* the close handlers of a Connection that close() shut run in a later turn
DeliverClose(c) ==
    /\ c \in pending
    /\ pending' = pending \ {c}
    /\ connected' = CloseHandler([connected |-> connected, connecting |-> connecting]).connected
    /\ connecting' = CloseHandler([connected |-> connected, connecting |-> connecting]).connecting
    /\ last' = [Did("close", "DeliverClose", "deliberate")
                   EXCEPT !.notice = HandlerNotice(c, silent)]
    /\ UNCHANGED <<conn, silent, nClient, cljSession, cljsSession, clj, cljs, cljc,
                   cljsBuild, selectedCljsTypeName, customName, procs>>
    /\ UNCHANGED <<projectDir, evals, sent, registry>>

(* --------------------------- specifications --------------------------- *)
\* no command is suspended at an await
AllIdle == \A q \in Procs : procs[q].pc = "idle"

\* whether close() runs the handlers at once matters only when it closes
SyncChoices == IF Closes(nClient) THEN BOOLEAN ELSE {FALSE}

\* the awaits of a running command settle
Resume(p) ==
    \/ \E ok \in BOOLEAN : Create(p, ok)
    \/ CljReady(p)
    \/ \E outcome \in {"ok", "none", "throw"} : Clone1(p, outcome)
    \/ \E r \in EvalResults : Start(p, FALSE, r)
    \/ Start(p, TRUE, NoResult)
    \/ \E ok \in BOOLEAN : Clone2(p, ok)
    \/ \E r \in EvalResults : ConnectStep(p, FALSE, r)
    \/ ConnectStep(p, TRUE, NoResult)
    \/ \E ok \in BOOLEAN : Setup(p, ok)
    \/ PickType(p, "undefined", "nofile", FALSE)
    \/ \E choice \in TypeNames, portFile \in PortFiles, sync \in SyncChoices :
          PickType(p, choice, portFile, sync)
    \/ \E port \in PortTexts \cup {"undefined"}, sync \in SyncChoices :
          PromptForNreplUrlAndConnect(p, port, sync)

\* a command is called: connect for a jack-in (the port file is read at
\* once), connect from the command palette or on activation, recreateCljsRepl
Call(p) ==
    \/ \E isAutoConnect \in BOOLEAN, portFile \in PortFiles, sync \in SyncChoices :
          Connect(p, isAutoConnect, TRUE, TRUE, portFile, sync)
    \/ \E isAutoConnect, docOpen \in BOOLEAN :
          Connect(p, isAutoConnect, FALSE, docOpen, "nofile", FALSE)
    \/ RecreateCljsRepl(p)

\* the Connection events
Closing ==
    \/ \E c \in Conns : UnexpectedClose(c)
    \/ \E c \in Conns : DeliverClose(c)

\* commands are issued one at a time: none starts while another is suspended
Next ==
    \/ AllIdle /\ Call(1)
    \/ AllIdle /\ \E sync \in SyncChoices : Disconnect(sync)
    \/ AllIdle /\ ToggleCLJCSession
    \/ Resume(1)
    \/ Closing

Spec == Init /\ [][Next]_vars

\* connect attempts alone, one at a time, from the command palette or for a
\* jack-in, with the Connection events
NextAttempts ==
    \/ AllIdle /\ \E portFile \in PortFiles, sync \in SyncChoices :
          Connect(1, FALSE, TRUE, TRUE, portFile, sync)
    \/ AllIdle /\ \E docOpen \in BOOLEAN :
          Connect(1, FALSE, FALSE, docOpen, "nofile", FALSE)
    \/ Resume(1)
    \/ Closing

\* every await of a suspended attempt settles: the picker, the prompt, the
\* socket connect, the clones, the evaluations and the REPL windows resolve
\* or fail
SpecAttempts == Init /\ [][NextAttempts]_vars /\ WF_vars(Resume(1))

\* commands may be issued while others are suspended at an await
NextOverlap ==
    \/ \E p \in Procs : Call(p)
    \/ \E sync \in SyncChoices : Disconnect(sync)
    \/ ToggleCLJCSession
    \/ \E p \in Procs : Resume(p)
    \/ Closing

SpecOverlap == Init /\ [][NextOverlap]_vars

(* ----------------------- overlapping commands ------------------------- *)
\* connect attempts of jack-ins on either of two call sites, the second of
\* which may begin while the first is suspended at any of its awaits; the
\* stored type name is not a strategy's, so no bootstrap evaluation runs;
\* close() may defer the close handlers
NextTwoConnects ==
    \/ \E p \in Procs, portFile \in PortTexts, sync \in SyncChoices :
          Connect(p, TRUE, TRUE, TRUE, portFile, sync)
    \/ \E p \in Procs, port \in PortTexts \cup {"undefined"}, sync \in SyncChoices :
          PromptForNreplUrlAndConnect(p, port, sync)
    \/ \E p \in Procs, ok \in BOOLEAN : Create(p, ok)
    \/ \E p \in Procs : CljReady(p)
    \/ \E p \in Procs, outcome \in {"ok", "none", "throw"} : Clone1(p, outcome)
    \/ \E c \in Conns : DeliverClose(c)

SpecTwoConnects == Init /\ [][NextTwoConnects]_vars

\* one command at a time, but disconnect may run while it is suspended
NextDisconnectDuring ==
    \/ AllIdle /\ Call(1)
    \/ \E sync \in SyncChoices : Disconnect(sync)
    \/ Resume(1)
    \/ \E c \in Conns : DeliverClose(c)

SpecDisconnectDuring == Init /\ [][NextDisconnectDuring]_vars

(* ------------------- evalConnectCode, chunk by chunk ------------------ *)
\* a chunk of output as the server sent it: its text, and whether ANSI escape
\* sequences are interleaved with the text
Chunk(text, ansi) == [text |-> text, ansi |-> ansi]

\* util.stripAnsi(x): the text without its escape sequences
stripAnsi(x) == [x EXCEPT !.ansi = FALSE]

\* the texts of a list of stored chunks, as the predicates search them
Texts(xs) == [i \in 1..Len(xs) |-> xs[i].text]

\* the evaluations of connect code, by the routine that starts them
EvalKinds == {"FigwheelMainStart", "FigwheelMain", "Figwheel", "shadow", "custom"}

\* what the evaluated code of each kind may print on stdout, and on stderr
OutTexts(kind) ==
    CASE kind = "FigwheelMainStart" -> {"Prompt will show", "other"}
      [] kind = "FigwheelMain"      -> {"To quit, type: :cljs/quit", "other"}
      [] kind = "Figwheel"          -> {"Figwheel: Starting server at", "Prompt will show"}
      [] kind = "custom"            -> {"please start", "READY"}
      [] OTHER                      -> {"other"}
ErrTexts(kind) == IF kind = "FigwheelMainStart" THEN ErrChunks ELSE {"other"}

\* the outputProcessors argument of evalConnectCode: lsp.ts:600-615 for
\* Figwheel, lsp.ts:662-683 for a custom type with both expressions
\* configured, none otherwise
OutputProcessors(kind) ==
    CASE kind = "Figwheel" -> <<"figwheelStarting">>
      [] kind = "custom"   -> <<"tellUserToStart", "printThisLine">>
      [] OTHER             -> <<>>

\* output.match(regexp) of a processor: the regular expression is applied to
\* the chunk as handed over
Matches(processor, x) ==
    CASE processor = "figwheelStarting" -> x.text = "Figwheel: Starting server at"
      [] processor = "tellUserToStart"  -> x.text = "please start"
      [] OTHER                          -> x.text = "READY"

\* the Session that the invocation in slot e evaluates on
EvalSession(e) == CloneSession(BaseSession(1), e)

\* the transport hands a chunk to the callbacks of the evaluation that runs
\* on the Session the chunk is tagged with
Routes(s) == {e \in Procs : evals[e].state = "running" /\ EvalSession(e) = s}

\* lsp.ts:511-515 with the processors of lsp.ts:600-615 and 662-683: every
\* processor is called with x; the Figwheel one opens the address it matched
\* when the setting asks for it, the custom one tells the user to start the app
RunProcessors(ev, x) ==
    LET ps == OutputProcessors(ev.kind)
    IN [ev EXCEPT
          !.handed = @ \o [i \in 1..Len(ps) |-> [processor |-> ps[i], chunk |-> x]],
          !.opened = IF \E i \in 1..Len(ps) : ps[i] = "figwheelStarting" /\ Matches(ps[i], x)
                        /\ ev.browser
                     THEN Append(@, x) ELSE @,
          !.told = IF \E i \in 1..Len(ps) : ps[i] = "tellUserToStart" /\ Matches(ps[i], x)
                   THEN @ + 1 ELSE @]

\* the stdout callback as it would be if out were one list shared by the
\* invocations instead of a closure of each
OnStdout_SharedList(e, x) ==
    evals' = [f \in Procs |->
                IF f = e
                THEN [RunProcessors(evals[e], x) EXCEPT !.out = Append(@, stripAnsi(x))]
                ELSE IF evals[f].state = "running"
                     THEN [evals[f] EXCEPT !.out = Append(@, stripAnsi(x))]
                     ELSE evals[f]]

\* lsp.ts:510-517: the stdout callback of the invocation in slot e
OnStdout(e, x) ==
    evals' = [evals EXCEPT ![e] =
                 [RunProcessors(@, x) EXCEPT !.out = Append(@, stripAnsi(x))]]

\* lsp.ts:518-521: the stderr callback of the invocation in slot e
OnStderr(e, x) ==
    evals' = [evals EXCEPT ![e] = [@ EXCEPT !.err = Append(@, stripAnsi(x))]]

\* a chunk of stdout arrives for Session s
Stdout(s, x) ==
    /\ Len(sent[s[2]]) < MaxEvalChunks
    /\ \E e \in Routes(s) :
          /\ x \in {Chunk(t, a) : t \in OutTexts(evals[e].kind), a \in BOOLEAN}
          /\ OnStdout(e, x)
    /\ sent' = [sent EXCEPT ![s[2]] = Append(@, [stream |-> "out", chunk |-> x])]
    /\ last' = Did("eval", "Stdout", "")
    /\ UNCHANGED <<conn, silent, pending, nClient, cljSession, cljsSession, clj, cljs,
                   cljc, connected, connecting, cljsBuild, selectedCljsTypeName,
                   customName, projectDir, procs, registry>>

\* a chunk of stderr arrives for Session s
Stderr(s, x) ==
    /\ Len(sent[s[2]]) < MaxEvalChunks
    /\ \E e \in Routes(s) :
          /\ x \in {Chunk(t, a) : t \in ErrTexts(evals[e].kind), a \in BOOLEAN}
          /\ OnStderr(e, x)
    /\ sent' = [sent EXCEPT ![s[2]] = Append(@, [stream |-> "err", chunk |-> x])]
    /\ last' = Did("eval", "Stderr", "")
    /\ UNCHANGED <<conn, silent, pending, nClient, cljSession, cljsSession, clj, cljs,
                   cljc, connected, connecting, cljsBuild, selectedCljsTypeName,
                   customName, projectDir, procs, registry>>

\* checkSuccess(valueResult, out, err) for the kind: the value it returns
\* ("throw" when it raises)
CheckSuccess(kind, r) ==
    IF kind = "FigwheelMainStart" THEN started(r)
    ELSE Connected(kind, r)

\* lsp.ts:523-533: result.value settles (value is "undefined" when it was
\* rejected and the catch logged the reason); the predicate decides
Finish(e, value) ==
    LET r == [value |-> value, out |-> Texts(evals[e].out), err |-> Texts(evals[e].err)]
        pred == CheckSuccess(evals[e].kind, r)
        ret == IF pred = "throw" THEN "throw"
               ELSE IF Truthy(pred) THEN "true" ELSE "false"
    IN
    /\ evals[e].state = "running"
    /\ evals' = [evals EXCEPT ![e] = [@ EXCEPT !.state = "done", !.value = value,
                                              !.pred = pred, !.ret = ret]]
    /\ EvalConnectCode(EvalSession(e), ret = "true")
    /\ last' = Did("eval", "Finish", ret)
    /\ UNCHANGED <<conn, silent, pending, nClient, cljSession, clj, cljc, connected,
                   connecting, cljsBuild, selectedCljsTypeName, customName, projectDir,
                   procs, sent, registry>>

\* what the invocation in slot e delivered to its predicate
ResultOf(e) == [value |-> evals[e].value, out |-> Texts(evals[e].out),
                err |-> Texts(evals[e].err)]

\* lsp.ts:722-732: the start step of makeCljsSessionClone goes on once the
\* evaluation of the start code has returned
StartReturns(e) ==
    /\ evals[e].state = "done"
    /\ evals[e].kind = "FigwheelMainStart"
    /\ Start(e, FALSE, ResultOf(e))

\* evaluations begin in a connected state: Connection 1 is live and its base
\* Session serves clj and cljc; the invocations of the given kinds run on
\* clones of it, each from the step of makeCljsSessionClone that called it
EvalNames(kind) ==
    CASE kind \in {"FigwheelMainStart", "FigwheelMain"} -> "Figwheel Main"
      [] kind = "Figwheel" -> "Figwheel"
      [] kind = "shadow"   -> "shadow-cljs"
      [] OTHER             -> customName

\* an invocation of the kind as it starts; only Figwheel reads the setting
\* openBrowserWhenFigwheelStarted
EvalStarts(kinds) ==
    {[NoEval EXCEPT !.state = "running", !.kind = k, !.browser = b] :
        k \in kinds, b \in BOOLEAN} \ {ev \in {[NoEval EXCEPT !.state = "running",
        !.kind = k, !.browser = TRUE] : k \in kinds} : ev.kind # "Figwheel"}

InitEvals(starts) ==
    /\ conn = [c \in Conns |-> IF c = 1 THEN "open" ELSE "none"]
    /\ silent = [c \in Conns |-> FALSE]
    /\ pending = {}
    /\ nClient = 1
    /\ cljSession = BaseSession(1)
    /\ cljsSession = Null
    /\ clj = BaseSession(1) /\ cljs = Null /\ cljc = BaseSession(1)
    /\ connected = TRUE /\ connecting = FALSE
    /\ cljsBuild = "null"
    /\ customName = "custom"
    /\ projectDir = WorkspaceRoot
    /\ evals \in starts
    /\ selectedCljsTypeName \in {EvalNames(evals[e].kind) :
                                    e \in {f \in Procs : evals[f].state = "running"}}
    /\ procs = [e \in Procs |->
                  IF evals[e].state = "none" THEN IdleProc
                  ELSE [IdleProc EXCEPT
                          !.pc = IF evals[e].kind = "FigwheelMainStart"
                                 THEN "start" ELSE "connect",
                          !.kind = "recreate", !.typ = EvalNames(evals[e].kind),
                          !.sess = BaseSession(1), !.new = EvalSession(e)]]
    /\ sent = [e \in Procs |-> <<>>]
    /\ registry = NoRegistry
    /\ last = Did("init", "InitEval", "")

\* one invocation of any kind
InitEval == InitEvals({[e \in Procs |-> IF e = 1 THEN ev ELSE NoEval] :
                          ev \in EvalStarts(EvalKinds)})

\* two invocations in flight for the same stored type, each on its own clone
PairKinds == {"shadow"}
InitEvalPair == InitEvals({[e \in Procs |-> ev] : ev \in EvalStarts(PairKinds)})

\* every chunk any kind may print
AllChunks == {Chunk(t, a) : t \in UNION {OutTexts(k) \cup ErrTexts(k) : k \in EvalKinds},
                            a \in BOOLEAN}

NextEval ==
    \/ \E e \in Procs, x \in AllChunks : Stdout(EvalSession(e), x)
    \/ \E e \in Procs, x \in AllChunks : Stderr(EvalSession(e), x)
    \/ \E e \in Procs, value \in {"undefined", ":selected", "nil"} : Finish(e, value)

\* one invocation, followed until the start step has acted on what it returned
NextEvalStart ==
    \/ NextEval
    \/ \E e \in Procs : StartReturns(e)

SpecEval == InitEval /\ [][NextEvalStart]_vars
SpecEvalPair == InitEvalPair /\ [][NextEval]_vars

(* ----------------------- the registry, call by call -------------------- *)
\* the names a custom type may be configured with ("" is no custom type)
CustomNames == {"", "custom", "Figwheel", "shadow-cljs"}
\* the names a command may look up
LookupNames == {"Figwheel Main", "Figwheel", "shadow-cljs", "custom", "", "undefined"}

\* getCLJSReplTypes as it would be without slice(): the custom type is
\* pushed onto the module's array itself
BuildRegistry_NoSlice(p) ==
    LET types == IF customName # ""
                 THEN Append(registry.builtin, createCustomCLJSReplType(customName))
                 ELSE registry.builtin
    IN
    /\ registry' = [registry EXCEPT !.builtin = types, !.types[p] = types]
    /\ last' = Did("registry", "BuildRegistry", "")
    /\ UNCHANGED <<conn, silent, pending, nClient, cljSession, cljsSession, clj, cljs,
                   cljc, connected, connecting, cljsBuild, selectedCljsTypeName,
                   customName, projectDir, procs, evals, sent>>

\* lsp.ts:701-708: a command builds its list: a copy of the module's array,
\* with the custom type pushed when one is configured
BuildRegistry(p) ==
    LET types == IF customName # ""
                 THEN Append(registry.builtin, createCustomCLJSReplType(customName))
                 ELSE registry.builtin
    IN
    /\ registry' = [registry EXCEPT !.types[p] = types]
    /\ last' = Did("registry", "BuildRegistry", "")
    /\ UNCHANGED <<conn, silent, pending, nClient, cljSession, cljsSession, clj, cljs,
                   cljc, connected, connecting, cljsBuild, selectedCljsTypeName,
                   customName, projectDir, procs, evals, sent>>

\* lsp.ts:720: the command looks a name up in the list it built
Lookup(p, name) ==
    /\ registry.types[p] # <<>>
    /\ registry' = [registry EXCEPT !.looked[p] = name,
                                    !.repl[p] = FindRepl(registry.types[p], name)]
    /\ last' = Did("registry", "Lookup", name)
    /\ UNCHANGED <<conn, silent, pending, nClient, cljSession, cljsSession, clj, cljs,
                   cljc, connected, connecting, cljsBuild, selectedCljsTypeName,
                   customName, projectDir, procs, evals, sent>>

\* the commands have not begun; the configuration may name any custom type
InitRegistry ==
    /\ conn = [c \in Conns |-> "none"]
    /\ silent = [c \in Conns |-> FALSE]
    /\ pending = {}
    /\ nClient = 0
    /\ cljSession = Null
    /\ cljsSession = Null
    /\ clj = Null /\ cljs = Null /\ cljc = Null
    /\ connected = FALSE /\ connecting = FALSE
    /\ cljsBuild = "null"
    /\ selectedCljsTypeName = "undefined"
    /\ customName \in CustomNames
    /\ projectDir = "none"
    /\ procs = [p \in Procs |-> IdleProc]
    /\ evals = [p \in Procs |-> NoEval]
    /\ sent = [p \in Procs |-> <<>>]
    /\ registry = NoRegistry
    /\ last = Did("init", "InitRegistry", "")

NextRegistry ==
    \/ \E p \in Procs : BuildRegistry(p)
    \/ \E p \in Procs, name \in LookupNames : Lookup(p, name)

SpecRegistry == InitRegistry /\ [][NextRegistry]_vars

(* ------------------------------- claims ------------------------------- *)
Live == {c \in Conns : conn[c] = "open"}
RolesUnset == clj = Null /\ cljs = Null /\ cljc = Null

\* C1: with commands issued one at a time, at most one Connection is live in
\* every reachable state, and while connectToHost waits for the new socket
\* the client it held has been closed and marked silent.
C1_AtMostOneLive ==
    /\ Cardinality(Live) <= 1
    /\ \A p \in Procs :
          (procs[p].pc = "create" /\ nClient # 0) =>
              (conn[nClient] = "closed" /\ silent[nClient])

\* a second Connection is live after connectToHost closed the first silently
C1_Witness ==
    \E c, d \in Conns :
        /\ conn[c] = "closed" /\ silent[c]
        /\ conn[d] = "open" /\ nClient = d /\ c # d

\* C2 (as claimed): whenever connected is true, cljc references the Session
\* of the clj role or the Session of the cljs role.
C2_CljcAliases == connected => (cljc = clj \/ cljc = cljs)

C4_CloseClearsRoles ==
    [][ last'.step \in {"Disconnect", "UnexpectedClose"} =>
            (clj' = Null /\ cljs' = Null /\ cljc' = Null /\ ~connected') ]_vars

\* C5 (as claimed): a failure raised during the bootstrap of a connected
\* client is caught, leaves connected and the clj role alone, and leaves the
\* cljs role unset.
C5_BootstrapFailureCaught ==
    [][ ( /\ last'.step \in {"Clone1", "Start", "Clone2", "ConnectStep"}
          /\ last'.res \in {"caught", "uncaught"}
          /\ connected ) =>
            /\ last'.res = "caught"
            /\ connected'
            /\ clj' = clj /\ clj' # Null
            /\ cljs' = Null ]_vars

C7_SkippedOrFailedUnset ==
    [][ ( /\ last'.op = "connect"
          /\ last'.res \in {"noCljs", "startFailed", "connectFailed"} ) =>
            /\ cljs' = Null
            /\ last'.res = "noCljs" => connected'
            /\ last'.res # "noCljs" => connected' = connected ]_vars

\* C8 (as claimed): when the connect step succeeds the cljs role is the clone
\* the predicate accepted, the clj role is unchanged and cljc aliases clj.
C8_ConnectSuccess ==
    [][ (last'.step = "ConnectStep" /\ last'.res = "connected") =>
            /\ \A p \in Procs : procs[p].pc = "connect" => cljs' = procs[p].new
            /\ clj' = clj
            /\ cljc' = clj' ]_vars

\* C9 (as claimed): disconnect raises no error and leaves the roles unset and
\* connected false, whatever the state it is called in.
C9_DisconnectIdempotent ==
    [][ last'.step = "Disconnect" =>
            (last'.res = "ok" /\ clj' = Null /\ cljs' = Null /\ cljc' = Null
             /\ ~connected') ]_vars

\* C10: toggleCLJCSession while connected moves cljc from the clj Session to
\* the cljs Session (bound or unset) and from the cljs Session to the clj
\* Session; while not connected it changes no role; it never writes clj, cljs.
C10_Toggle ==
    [][ last'.step = "ToggleCLJCSession" =>
            /\ clj' = clj /\ cljs' = cljs
            /\ connected => /\ (cljc = clj => cljc' = cljs)
                            /\ (cljc = cljs => cljc' = clj)
            /\ ~connected => cljc' = cljc ]_vars

\* a toggle moved cljc onto a bound cljs Session
C10_Witness ==
    /\ last = Did("toggle", "ToggleCLJCSession", "connected")
    /\ connected
    /\ cljs # Null /\ cljc = cljs /\ clj # Null /\ clj # cljs

\* the port text is an integer strictly between 0 and 65536
IntegerPort(t) == parseFloat(t) > 0 /\ parseFloat(t) < 655360 /\ parseFloat(t) % 10 = 0

\* C11 (as claimed): connectToHost is called, and a socket opened, only with
\* a port that is an integer strictly between 0 and 65536, on the prompt path
\* and on the autoconnect path alike; for any other port the attempt ends
\* with connecting false and leaves the Connections, the client, connected
\* and the roles as they were.
C11_PortValidated ==
    [][\A p \in Procs :
          /\ (procs[p].pc # "create" /\ procs'[p].pc = "create")
                => IntegerPort(procs'[p].port)
          /\ (procs[p].pc \in {"idle", "pick", "prompt"} /\ procs'[p].pc = "idle"
                /\ last'.op = "connect" /\ last'.res = "badUrl")
                => /\ ~connecting'
                   /\ conn' = conn /\ nClient' = nClient /\ connected' = connected
                   /\ clj' = clj /\ cljs' = cljs /\ cljc' = cljc]_vars

\* C12: a connect attempt that ends before connectToHost is called, because
\* no document is open or because the type picker was dismissed, starts no
\* connectToHost and leaves the Connections, the client, connected,
\* connecting and the three roles exactly as they were, in each of its runs.
C12_AbortLeavesAll ==
    [][(last'.op = "connect" /\ last'.step \in {"Connect", "PickType"}
          /\ last'.res \in {"picking", "noDocument", "dismissed"})
        => /\ conn' = conn /\ silent' = silent /\ pending' = pending
           /\ nClient' = nClient
           /\ connected' = connected /\ connecting' = connecting
           /\ clj' = clj /\ cljs' = cljs /\ cljc' = cljc
           /\ \A p \in Procs : procs'[p].pc = "create" => procs[p].pc = "create"
           /\ last'.res # "picking" => \A p \in Procs : procs'[p].pc = "idle"]_vars

\* the picker was dismissed while a Connection was connected, and it still is
C12_Witness ==
    /\ last = Did("connect", "PickType", "dismissed")
    /\ connected /\ nClient # 0 /\ conn[nClient] = "open"
    /\ clj = BaseSession(nClient)

\* the run of connect that just ended was a jack-in (it went straight to the
\* port file), respectively an autoconnect that is not a jack-in
JackInRan == last'.op = "connect" /\ last'.step = "Connect"
                /\ last'.res \in {"connecting", "prompting"}
AutoConnectRan == \E p \in Procs : /\ procs[p].pc = "idle" /\ procs'[p].pc = "pick"
                                   /\ procs'[p].auto

\* C13 (as claimed): initProjectDir overwrites the stored project root only
\* in a connect attempt that is neither an autoconnect nor a jack-in; an
\* autoconnect or a jack-in leaves the stored project root unchanged.
C13_OnlyManualResolves ==
    [][(JackInRan \/ AutoConnectRan) => projectDir' = projectDir]_vars

\* C13 (amended): initProjectDir overwrites the stored project root only in
\* the first run of a connect attempt that is not a jack-in, autoconnect or
\* not; a jack-in leaves the stored project root unchanged.
C13_OnlyJackInSkips ==
    [][/\ JackInRan => projectDir' = projectDir
       /\ projectDir' # projectDir =>
             (last'.op = "connect" /\ last'.step = "Connect" /\ last'.res = "picking")]_vars

\* a jack-in ran connect before any project root was stored, and none is
C13_Witness ==
    /\ last.op = "connect" /\ last.step = "Connect"
    /\ last.res \in {"connecting", "prompting"}
    /\ projectDir = "none"

\* the close handler ran in the step: at once in close(), or when the close
\* was delivered, or when the socket dropped
HandlerRan ==
    \/ last'.op = "close"
    \/ /\ last'.op \in {"connect", "disconnect"}
       /\ \E c \in Conns : conn[c] = "open" /\ conn'[c] = "closed" /\ c \notin pending'

\* C14 (as claimed): the close handler writes "nREPL Connection was closed"
\* when and only when the Connection closed unexpectedly; for a close made
\* deliberately, by the teardown of connectToHost or by disconnect, the same
\* handler runs (connected and connecting become false) and writes nothing.
C14_NoticeOnlyUnexpected ==
    [][/\ last'.notice => HandlerRan
       /\ HandlerRan =>
             /\ ~connected' \/ last'.op = "connect"
             /\ last'.op # "connect" => ~connecting'
             /\ last'.notice <=> last'.step = "UnexpectedClose"]_vars

\* the invocations of evalConnectCode that have returned or raised
Done == {e \in Procs : evals[e].state = "done"}

\* C15 (as claimed): evalConnectCode always returns the boolean answer of
\* the success predicate on the final value and the accumulated out and err;
\* when the evaluation failed the value is empty and the predicate, built-in
\* or custom, still answers without raising.
C15_AlwaysBoolean ==
    \A e \in Done :
        /\ evals[e].ret \in {"true", "false"}
        /\ evals[e].ret = "true" <=> Truthy(CheckSuccess(evals[e].kind, ResultOf(e)))

\* C16 (as claimed): whatever escape sequences a stdout or stderr chunk
\* carries, the text appended to out and err and the text handed to every
\* output processor carry none.
C16_NoEscapeBytes ==
    \A e \in Procs :
        /\ \A i \in 1..Len(evals[e].out) : ~evals[e].out[i].ansi
        /\ \A i \in 1..Len(evals[e].err) : ~evals[e].err[i].ansi
        /\ \A i \in 1..Len(evals[e].handed) : ~evals[e].handed[i].chunk.ansi

\* the chunks of one stream that the server sent for slot e, stripped
OwnChunks(e, stream) ==
    LET own == SelectSeq(sent[e], LAMBDA m : m.stream = stream)
    IN [i \in 1..Len(own) |-> stripAnsi(own[i].chunk)]

C18_ProcessorsSeeEveryChunk ==
    \A e \in Procs :
        /\ evals[e].out = OwnChunks(e, "out")
        /\ evals[e].err = OwnChunks(e, "err")
        /\ LET ps == OutputProcessors(evals[e].kind)
           IN \A i \in 1..Len(ps) :
                 LET got == SelectSeq(evals[e].handed, LAMBDA h : h.processor = ps[i])
                 IN /\ Len(got) = Len(sent[e])
                    /\ \A j \in 1..Len(got) : got[j].chunk.text = sent[e][j].chunk.text

\* the start code printed the ready marker, or "already running" on stderr
StartSignal(e) == \/ Finds(Texts(evals[e].out), "Prompt will show")
                  \/ Finds(Texts(evals[e].err), "already running")

C20_OpenedOnce ==
    \A e \in Procs :
        (evals[e].kind = "Figwheel" /\ evals[e].browser) =>
            Len(evals[e].opened) =
                IF \E i \in 1..Len(sent[e]) :
                       /\ sent[e][i].stream = "out"
                       /\ Matches("figwheelStarting", sent[e][i].chunk)
                THEN 1 ELSE 0

\* C21 (as claimed): in one connect step of the custom strategy with a
\* tellUserToStartRegExp configured, the "please start your ClojureScript
\* app" message is logged at most once, however many stdout chunks match.
C21_ToldOnce ==
    \A e \in Procs : evals[e].kind = "custom" => evals[e].told <= 1

\* the names of the built-in strategies
BuiltinNames == {cljsReplTypes[i].name : i \in 1..Len(cljsReplTypes)}

\* the list a command built holds the built-in strategies in their order,
\* then the custom one if configured; a lookup never gives the custom
\* strategy for a built-in's name; the module's array is as the literal made it
RegistryComposed ==
    /\ registry.builtin = cljsReplTypes
    /\ \A p \in Procs :
          /\ registry.types[p] # <<>> =>
                registry.types[p] =
                    IF customName # ""
                    THEN cljsReplTypes \o <<createCustomCLJSReplType(customName)>>
                    ELSE cljsReplTypes
          /\ registry.looked[p] \in BuiltinNames =>
                /\ registry.repl[p].kind # "custom"
                /\ registry.repl[p].name = registry.looked[p]

\* C22 (as claimed): the registry built for an attempt holds every built-in
\* strategy in built-in order, then the custom strategy if one is configured;
\* a lookup never returns the custom strategy in place of a built-in of that
\* name, a configured custom strategy is reachable by its name, and building
\* the registry does not modify the built-in list.
C22_RegistryAsClaimed ==
    /\ RegistryComposed
    /\ \A p \in Procs :
          (customName # "" /\ registry.types[p] # <<>>
              /\ registry.looked[p] = customName)
            => registry.repl[p].kind = "custom"

\* C22 (amended): as claimed, except that a configured custom strategy is
\* reachable by its name only when no built-in strategy has that name.
C22_RegistryUnlessNameTaken ==
    /\ RegistryComposed
    /\ \A p \in Procs :
          (customName # "" /\ customName \notin BuiltinNames
              /\ registry.types[p] # <<>>
              /\ registry.looked[p] = customName)
            => registry.repl[p].kind = "custom"

\* a command found the configured custom strategy, after the built-in ones,
\* and another looked up a built-in name and got the built-in
C22_Witness ==
    /\ customName = "custom"
    /\ \E p, q \in Procs :
          /\ registry.looked[p] = customName /\ registry.repl[p].kind = "custom"
          /\ Len(registry.types[p]) = Len(cljsReplTypes) + 1
          /\ registry.looked[q] = "Figwheel" /\ registry.repl[q].kind = "Figwheel"

\* C23: recreateCljsRepl works with the strategy name the last connect
\* attempt stored and, however the bootstrap ends, none of its runs changes
\* the stored project root, closes or replaces the held Connection, or
\* changes connected, connecting or the clj role.
C23_RecreateFrame ==
    [][last'.op = "recreate" =>
          /\ projectDir' = projectDir
          /\ conn' = conn /\ nClient' = nClient /\ pending' = pending
          /\ connected' = connected /\ connecting' = connecting
          /\ clj' = clj
          /\ selectedCljsTypeName' = selectedCljsTypeName
          /\ \A p \in Procs :
                (procs'[p].kind = "recreate" /\ procs'[p].pc # "idle") =>
                    procs'[p].typ = selectedCljsTypeName]_vars

\* a recreateCljsRepl bound a new cljs Session on the held, live Connection
C23_Witness ==
    /\ last = Did("recreate", "Setup", "ready")
    /\ connected /\ nClient # 0 /\ conn[nClient] = "open"
    /\ clj = BaseSession(nClient) /\ cljs # Null /\ ConnOf(cljs) = nClient
    /\ projectDir = WorkspaceRoot

\* the Connections that a connect attempt tore down to make room for its own
Replaced == {c \in Conns : conn[c] = "closed" /\ silent[c]}

\* C24 (as claimed): once a connect attempt that replaced an earlier
\* Connection has ended, successfully or not, no role references a Session of
\* the replaced Connection: a cljs role bound under it does not survive a
\* reconnect without ClojureScript or with a failed bootstrap, and clj and
\* cljc do not keep the old Session when the new socket connect fails.
C24_NoStaleRoles ==
    AllIdle => \A s \in {clj, cljs, cljc} : s # Null => ConnOf(s) \notin Replaced

\* C25 (as claimed): the close handler of a Connection that a newer connect
\* attempt tore down never changes the flags of the newer attempt: when its
\* close notification is delivered while the new attempt is marked connecting
\* or after the new Connection was marked connected, connected and
\* connecting stay as they are.
C25_OldHandlerKeepsFlags ==
    [][(last'.step = "DeliverClose" /\ \E c \in pending \ pending' : silent[c])
          => (connected' = connected /\ connecting' = connecting)]_vars

\* C26 (as claimed): when two connect attempts overlap, then once both have
\* ended at most one Connection is live, the module holds it and the clj
\* role references its base Session; no Connection that either attempt
\* created is left open without being held.
C26_OverlapKeepsOne ==
    AllIdle =>
        /\ Cardinality(Live) <= 1
        /\ \A c \in Live : nClient = c /\ clj = BaseSession(c)

\* the awaits inside the ClojureScript bootstrap
BootstrapPcs == {"clone1", "start", "clone2", "connect", "setup"}

\* C27 (as claimed): if disconnect runs while a connect attempt or
\* recreateCljsRepl is suspended inside the ClojureScript bootstrap, no run
\* of the suspended command after it rebinds a role or sets connected: the
\* roles stay unset and connected stays false until the command has ended.
\* (Inside the bootstrap the roles are all unset only after a disconnect.)
C27_NoRebindAfterDisconnect ==
    [][(/\ RolesUnset /\ ~connected
        /\ \E p \in Procs : procs[p].pc \in BootstrapPcs /\ procs'[p] # procs[p])
          => (clj' = Null /\ cljs' = Null /\ cljc' = Null /\ ~connected')]_vars

\* C28 (as claimed): whenever no connect attempt is in progress, connected is
\* true if and only if the held Connection is live and the clj role
\* references its base Session; connectToHost returning false, also after a
\* failure behind the socket connect, leaves no live Connection with
\* connected false.
C28_ConnectedIffLive ==
    AllIdle =>
        (connected <=> /\ nClient # 0
                       /\ conn[nClient] = "open"
                       /\ clj = BaseSession(nClient))

\* C29: provided every await settles, a connect attempt that set the
\* connecting flag ends, and once it has ended the flag is false again,
\* whichever way it ended (success, socket failure, bad address, dismissed
\* prompt, ClojureScript bootstrap success or failure).
C29_ConnectingEnds == connecting ~> (AllIdle /\ ~connecting)

\* a connect attempt that had set the flag ended in the catch of
\* connectToHost after its ClojureScript REPL-window setup failed
C29_Witness ==
    /\ last = Did("connect", "Setup", "failed")
    /\ AllIdle
    /\ ~connecting

====
